---- MODULE Spec2Model ----
(***************************************************************************)
(* The tinyfsm state machine engine (src/src/lib.rs, macro rustfsm!) and   *)
(* the two state types it is instantiated with here:                       *)
(*   - "Mario":   the machine of src/tests/integration.rs, whose           *)
(*                StateBehavior implementation overrides handle and enter; *)
(*   - "FooName": the machine declared in the documentation of rustfsm!    *)
(*                (lib.rs 36-50).  The source gives it no StateBehavior    *)
(*                implementation, so it stands for an arbitrary            *)
(*                implementor: its handle (a required trait method) may    *)
(*                return any Option<State> and leave any context, and its  *)
(*                enter/exit are the trait's default no-op hooks.          *)
(* Every engine operation is one action.  The hook calls an operation      *)
(* makes are recorded, in call order, in the variable calls.               *)
(***************************************************************************)
EXTENDS Integers, Sequences, FiniteSets

VARIABLES
    sm,             \* which state machine type this instance is
    current_state,  \* field current_state (lib.rs 181)
    context,        \* field context (lib.rs 182)
    calls,          \* calls made on the state by the last operation, in order
    last,           \* the last operation: its name, arguments, pre-state, results
    nExit,          \* number of exit calls since construction
    nEnter,         \* number of enter calls since construction
    installed,      \* the state most recently installed in current_state
    hist            \* events delivered so far (recorded in SpecHandleOnly)

vars == <<sm, current_state, context, calls, last, nExit, nEnter, installed, hist>>

----------------------------------------------------------------------------
(* Bounds *)

\* most exit (and enter) calls made in one behaviour
MaxTransitions == 5
\* most events recorded in hist
MaxEvents == 5
\* largest value of the u8 context field of FooName that is drawn
MaxFooData == 1

----------------------------------------------------------------------------
(* Types declared by the machines *)

\* Option::None
None == "None"

Machines == {"Mario", "FooName"}

MarioConsumables == {"Mushroom", "Flower", "Feather"}

MarioSize == {"Small", "Large"}

\* declared order of the states; the first is the initial state of new()
MarioStatesDecl == <<"DeadMario", "SmallMario", "SuperMario", "FireMario", "CapeMario">>

MarioStates == {MarioStatesDecl[i] : i \in DOMAIN MarioStatesDecl}

Hit == <<"Hit">>

GetConsumable(item) == <<"GetConsumable", item>>

MarioEvents == {Hit} \cup {GetConsumable(item) : item \in MarioConsumables}

MarioContexts == [size : MarioSize, alive : BOOLEAN]

MarioContextDefault == [size |-> "Small", alive |-> TRUE]

FooStatesDecl == <<"FooStateA", "FooStateB">>

FooStates == {FooStatesDecl[i] : i \in DOMAIN FooStatesDecl}

FooEvents == {<<"FooEvent1">>, <<"FooEvent2">>}

FooContexts == [context_foo_data : 0..MaxFooData, context_boo_data : BOOLEAN]

FooContextDefault == [context_foo_data |-> 0, context_boo_data |-> TRUE]

States(t) == IF t = "Mario" THEN MarioStates ELSE FooStates

Events(t) == IF t = "Mario" THEN MarioEvents ELSE FooEvents

Contexts(t) == IF t = "Mario" THEN MarioContexts ELSE FooContexts

StatesDecl(t) == IF t = "Mario" THEN MarioStatesDecl ELSE FooStatesDecl

ContextDefault(t) == IF t = "Mario" THEN MarioContextDefault ELSE FooContextDefault

----------------------------------------------------------------------------
(* StateBehavior: the trait's defaults and the implementations *)

\* what a state's handle gives back: the Option<State> it returns and the
\* context as it leaves it
HandleResult(next, ctx) == [next |-> next, context |-> ctx]

NoResult == [next |-> None, context |-> None]

\* faulty variant of StateBehavior_enter: the default hook resets the context
StateBehavior_enter_reset(self, ctx) == FooContextDefault

\* fn enter(&self, _context) {}
StateBehavior_enter(self, ctx) == ctx

\* fn exit(&self, _context) {}
StateBehavior_exit(self, ctx) == ctx

\* faulty variant of MarioStates_enter: entering SmallMario leaves size alone
MarioStates_enter_keep_size(self, ctx) ==
    CASE self = "DeadMario" -> [ctx EXCEPT !.alive = FALSE]
      [] self = "SmallMario" -> ctx
      [] OTHER -> [ctx EXCEPT !.size = "Large"]

\* faulty variant of MarioStates_enter: entering SmallMario revives Mario
MarioStates_enter_revive(self, ctx) ==
    CASE self = "DeadMario" -> [ctx EXCEPT !.alive = FALSE]
      [] self = "SmallMario" -> [ctx EXCEPT !.size = "Small", !.alive = TRUE]
      [] OTHER -> [ctx EXCEPT !.size = "Large"]

\* faulty variant of MarioStates_enter: entering DeadMario leaves alive set
MarioStates_enter_dead_alive(self, ctx) ==
    CASE self = "DeadMario" -> ctx
      [] self = "SmallMario" -> [ctx EXCEPT !.size = "Small"]
      [] OTHER -> [ctx EXCEPT !.size = "Large"]

\* impl StateBehavior for MarioStates: enter
MarioStates_enter(self, ctx) ==
    CASE self = "DeadMario" -> [ctx EXCEPT !.alive = FALSE]
      [] self = "SmallMario" -> [ctx EXCEPT !.size = "Small"]
      [] OTHER -> [ctx EXCEPT !.size = "Large"]

\* handle, the rows (SmallMario, _) of the match
SmallMarioNext(event) ==
    IF event[1] = "GetConsumable"
    THEN CASE event[2] = "Mushroom" -> "SuperMario"
           [] event[2] = "Flower" -> "FireMario"
           [] event[2] = "Feather" -> "CapeMario"
    ELSE "DeadMario"

\* faulty variant of SuperMarioNext: a second mushroom gives an undeclared state
SuperMarioNext_undeclared(event) ==
    IF event[1] = "GetConsumable"
    THEN CASE event[2] = "Flower" -> "FireMario"
           [] event[2] = "Feather" -> "CapeMario"
           [] OTHER -> "GiantMario"
    ELSE "SmallMario"

\* handle, the rows (SuperMario, _) of the match
SuperMarioNext(event) ==
    IF event[1] = "GetConsumable"
    THEN CASE event[2] = "Flower" -> "FireMario"
           [] event[2] = "Feather" -> "CapeMario"
           [] OTHER -> None
    ELSE "SmallMario"

\* handle, the rows (FireMario, _) of the match
FireMarioNext(event) ==
    IF event[1] = "GetConsumable"
    THEN CASE event[2] = "Feather" -> "CapeMario"
           [] OTHER -> None
    ELSE "SmallMario"

\* faulty variant of CapeMarioNext: a hit costs the cape only
CapeMarioNext_hit_to_super(event) ==
    IF event[1] = "GetConsumable"
    THEN CASE event[2] = "Flower" -> "FireMario"
           [] OTHER -> None
    ELSE "SuperMario"

\* handle, the rows (CapeMario, _) of the match
CapeMarioNext(event) ==
    IF event[1] = "GetConsumable"
    THEN CASE event[2] = "Flower" -> "FireMario"
           [] OTHER -> None
    ELSE "SmallMario"

\* faulty variant of DeadMarioNext: a mushroom revives a dead Mario
DeadMarioNext_revive(event) ==
    IF event = GetConsumable("Mushroom") THEN "SmallMario" ELSE None

\* handle, the row (DeadMario, _) of the match
DeadMarioNext(event) == None

\* impl StateBehavior for MarioStates: the Option<State> handle returns
MarioNext(self, event) ==
    CASE self = "SmallMario" -> SmallMarioNext(event)
      [] self = "SuperMario" -> SuperMarioNext(event)
      [] self = "FireMario" -> FireMarioNext(event)
      [] self = "CapeMario" -> CapeMarioNext(event)
      [] self = "DeadMario" -> DeadMarioNext(event)

\* impl StateBehavior for MarioStates: handle never writes the context
MarioStates_handle(self, event, ctx) == HandleResult(MarioNext(self, event), ctx)

\* handle of an arbitrary implementor: whatever the implementation decides
FooStates_handle(self, event, ctx, choice) == choice

\* the results an implementor's handle may give (one, computed, for Mario)
HandleChoices(t) ==
    IF t = "Mario" THEN {NoResult}
    ELSE {HandleResult(n, c) : n \in FooStates \cup {None}, c \in FooContexts}

\* dynamic dispatch of self.handle(&event, &mut context)
state_handle(t, self, event, ctx, choice) ==
    IF t = "Mario" THEN MarioStates_handle(self, event, ctx)
    ELSE FooStates_handle(self, event, ctx, choice)

\* self.enter(&mut context): Mario overrides it, FooName does not
state_enter(t, self, ctx) ==
    IF t = "Mario" THEN MarioStates_enter(self, ctx)
    ELSE StateBehavior_enter(self, ctx)

\* self.exit(&mut context): no implementation overrides it
state_exit(t, self, ctx) == StateBehavior_exit(self, ctx)

----------------------------------------------------------------------------
(* The engine, as functions of the machine value                           *)
(* m = [sm, current_state, context, calls]                                 *)

Call(hook, self) == [hook |-> hook, self |-> self]

\* self.current_state.handle(&event, &mut self.context)
call_handle(m, event, choice) ==
    [m EXCEPT !.context = state_handle(m.sm, m.current_state, event, m.context, choice).context,
              !.calls = Append(@, Call("handle", m.current_state))]

\* self.current_state.exit(&mut self.context)
call_exit(m) ==
    [m EXCEPT !.context = state_exit(m.sm, m.current_state, m.context),
              !.calls = Append(@, Call("exit", m.current_state))]

\* self.current_state = new_state
commit(m, new_state) ==
    [m EXCEPT !.current_state = new_state,
              !.calls = Append(@, Call("commit", new_state))]

\* self.current_state.enter(&mut self.context)
call_enter(m) ==
    [m EXCEPT !.context = state_enter(m.sm, m.current_state, m.context),
              !.calls = Append(@, Call("enter", m.current_state))]

\* faulty variant of new: construction enters the initial state
new_enter(t) ==
    call_enter([sm |-> t, current_state |-> StatesDecl(t)[1],
                context |-> ContextDefault(t), calls |-> <<>>])

\* pub fn new() -> Self
new(t) ==
    [sm |-> t, current_state |-> StatesDecl(t)[1], context |-> ContextDefault(t),
     calls |-> <<>>]

\* faulty variant of new_with: construction enters the initial state
new_with_enter(t, initial_state, ctx) ==
    call_enter([sm |-> t, current_state |-> initial_state, context |-> ctx, calls |-> <<>>])

\* new(initial_state, context), the constructor the integration test calls
new_with(t, initial_state, ctx) ==
    [sm |-> t, current_state |-> initial_state, context |-> ctx, calls |-> <<>>]

\* faulty variant of transition: the state is overwritten before exit runs
transition_commit_first(m, new_state) == call_enter(call_exit(commit(m, new_state)))

\* faulty variant of transition: a self-transition fires no hook
transition_skip_self(m, new_state) ==
    IF new_state = m.current_state THEN m
    ELSE call_enter(commit(call_exit(m), new_state))

\* pub fn transition(&mut self, new_state)
transition(m, new_state) == call_enter(commit(call_exit(m), new_state))

\* faulty variant of force_state: the new state is entered
force_state_enter(m, new_state) == call_enter([m EXCEPT !.current_state = new_state])

\* pub fn force_state(&mut self, new_state)
force_state(m, new_state) == [m EXCEPT !.current_state = new_state]

\* faulty variant of get_current_state: the declared initial state is returned
get_current_state_initial(m) == StatesDecl(m.sm)[1]

\* pub fn get_current_state(&self)
get_current_state(m) == m.current_state

\* faulty variant of handle: None is taken as a transition to the current state
handle_none_is_self(m, event, choice) ==
    LET next_state == state_handle(m.sm, m.current_state, event, m.context, choice).next
        m0 == call_handle(m, event, choice)
    IN  call_enter(commit(call_exit(m0),
                          IF next_state # None THEN next_state ELSE m.current_state))

\* faulty variant of handle: Some(current state) fires no hook
handle_skip_self(m, event, choice) ==
    LET next_state == state_handle(m.sm, m.current_state, event, m.context, choice).next
        m0 == call_handle(m, event, choice)
    IN  IF next_state # None /\ next_state # m.current_state
        THEN call_enter(commit(call_exit(m0), next_state))
        ELSE m0

\* faulty variant of handle: the new state is committed but never entered
handle_no_enter(m, event, choice) ==
    LET next_state == state_handle(m.sm, m.current_state, event, m.context, choice).next
        m0 == call_handle(m, event, choice)
    IN  IF next_state # None
        THEN commit(call_exit(m0), next_state)
        ELSE m0

\* faulty variant of handle: after a transition the event is delivered again,
\* to the new state
handle_redeliver(m, event, choice) ==
    LET next_state == state_handle(m.sm, m.current_state, event, m.context, choice).next
        m0 == call_handle(m, event, choice)
        m1 == call_enter(commit(call_exit(m0), next_state))
        again == state_handle(m1.sm, m1.current_state, event, m1.context, choice).next
        m2 == call_handle(m1, event, choice)
    IN  IF next_state = None THEN m0
        ELSE IF again = None THEN m2
        ELSE call_enter(commit(call_exit(m2), again))

\* fn handle(&mut self, event)
handle(m, event, choice) ==
    LET next_state == state_handle(m.sm, m.current_state, event, m.context, choice).next
        m0 == call_handle(m, event, choice)
    IN  IF next_state # None
        THEN call_enter(commit(call_exit(m0), next_state))
        ELSE m0

----------------------------------------------------------------------------
(* The state machine instance *)

NumCalls(log, hook) == Cardinality({i \in DOMAIN log : log[i].hook = hook})

Hooks(log) == SelectSeq(log, LAMBDA c : c.hook \in {"exit", "enter"})

NoEvent == <<>>

Machine == [sm |-> sm, current_state |-> current_state, context |-> context, calls |-> <<>>]

Op(name, event, new_state, res, ret) ==
    [op |-> name, event |-> event, new_state |-> new_state,
     from |-> current_state, ctx0 |-> context, res |-> res, ret |-> ret]

\* the machine value m becomes the instance's state
Install(m) ==
    /\ current_state' = m.current_state
    /\ context' = m.context
    /\ calls' = m.calls
    /\ nExit' = nExit + NumCalls(m.calls, "exit")
    /\ nEnter' = nEnter + NumCalls(m.calls, "enter")
    /\ sm' = sm

Budget(m) ==
    Hooks(m.calls) # <<>> => nExit < MaxTransitions /\ nEnter < MaxTransitions

Constructed(m, name, initial_state, ctx) ==
    /\ sm = m.sm
    /\ current_state = m.current_state
    /\ context = m.context
    /\ calls = m.calls
    /\ nExit = NumCalls(m.calls, "exit")
    /\ nEnter = NumCalls(m.calls, "enter")
    /\ installed = m.current_state
    /\ last = [op |-> name, event |-> NoEvent, new_state |-> initial_state, from |-> None,
               ctx0 |-> ctx, res |-> NoResult, ret |-> None]
    /\ hist = <<>>

InitNew == \E t \in Machines : Constructed(new(t), "new", None, None)

InitNewWith ==
    \E t \in Machines : \E s \in States(t) : \E c \in Contexts(t) :
        Constructed(new_with(t, s, c), "new_with", s, c)

Init == InitNew \/ InitNewWith

Transition(new_state) ==
    LET m == transition(Machine, new_state) IN
    /\ Budget(m)
    /\ Install(m)
    /\ last' = Op("transition", NoEvent, new_state, NoResult, None)
    /\ installed' = m.current_state
    /\ UNCHANGED hist

ForceState(new_state) ==
    LET m == force_state(Machine, new_state) IN
    /\ Budget(m)
    /\ Install(m)
    /\ last' = Op("force_state", NoEvent, new_state, NoResult, None)
    /\ installed' = m.current_state
    /\ UNCHANGED hist

GetCurrentState ==
    /\ last' = Op("get_current_state", NoEvent, None, NoResult, get_current_state(Machine))
    /\ calls' = <<>>
    /\ UNCHANGED <<sm, current_state, context, nExit, nEnter, installed, hist>>

HandleStep(event, choice) ==
    LET m == handle(Machine, event, choice)
        res == state_handle(sm, current_state, event, context, choice)
    IN
    /\ Budget(m)
    /\ Install(m)
    /\ last' = Op("handle", event, None, res, None)
    /\ installed' = IF NumCalls(m.calls, "commit") > 0 THEN m.current_state ELSE installed

Handle(event) ==
    \E choice \in HandleChoices(sm) :
        /\ HandleStep(event, choice)
        /\ UNCHANGED hist

HandleRecorded(event) ==
    /\ Len(hist) < MaxEvents
    /\ HandleStep(event, NoResult)
    /\ hist' = Append(hist, event)

Next ==
    \/ \E s \in States(sm) : Transition(s)
    \/ \E s \in States(sm) : ForceState(s)
    \/ GetCurrentState
    \/ \E e \in Events(sm) : Handle(e)

Spec == Init /\ [][Next]_vars

\* the Mario machine of the integration test, driven by handle and transition
\* calls, never by force_state
NextNoForce ==
    \/ \E e \in MarioEvents : Handle(e)
    \/ \E s \in MarioStates : Transition(s)

\* the Mario machine of the integration test, driven by handle calls alone
ScenarioContext == [size |-> "Small", alive |-> TRUE]

InitScenario ==
    Constructed(new_with("Mario", "SmallMario", ScenarioContext), "new_with",
                "SmallMario", ScenarioContext)

NextHandleOnly == \E e \in MarioEvents : HandleRecorded(e)

SpecNoForce == InitScenario /\ [][NextNoForce]_vars

SpecHandleOnly == InitScenario /\ [][NextHandleOnly]_vars

----------------------------------------------------------------------------
(* Properties *)

\* the calls of the last operation other than the state's own handle
Protocol(log) == SelectSeq(log, LAMBDA c : c.hook # "handle")

\* the last operation was handle(event) and the state's handle returned None
HandledNone == last.op = "handle" /\ last.res.next = None

\* the last operation was handle(event) and the state's handle returned Some
HandledSome == last.op = "handle" /\ last.res.next # None

\* C1: when the state's handle returns no next state, the engine's handle
\* leaves current_state as it was, calls neither exit nor enter and never
\* overwrites the state, and leaves the context as the state's handle left it.
C1_NoTransitionFrame ==
    HandledNone =>
        /\ current_state = last.from
        /\ Protocol(calls) = <<>>
        /\ context = last.res.context

\* C1 happens: an implementor's handle wrote the context and returned None
C1_Witness ==
    /\ HandledNone
    /\ sm = "FooName"
    /\ last.res.context # last.ctx0
    /\ context = last.res.context

\* the target of the last state-driven transition
Target == IF last.op = "transition" THEN last.new_state ELSE last.res.next

StateDriven == last.op = "transition" \/ HandledSome

\* C2: in a state-driven transition S1 -> S2 (transition(S2), or handle when
\* the state's handle returns S2) exit is called on S1 first, then
\* current_state is overwritten with S2, then enter is called on S2, and
\* nothing else: exit is never called on S2 nor enter on S1.
C2_ExitCommitEnter ==
    StateDriven =>
        /\ Protocol(calls) =
               <<Call("exit", last.from), Call("commit", Target), Call("enter", Target)>>
        /\ current_state = Target

\* C2 happens: a handle call moved Mario from Cape to Small
C2_Witness ==
    /\ HandledSome
    /\ last.from = "CapeMario"
    /\ current_state = "SmallMario"
    /\ Len(Protocol(calls)) = 3

\* C3: every transition(new_state) calls exit exactly once and enter exactly
\* once, also when new_state is the current state, and ends in new_state.
C3_TransitionFiresBothHooks ==
    last.op = "transition" =>
        /\ NumCalls(calls, "exit") = 1
        /\ NumCalls(calls, "enter") = 1
        /\ current_state = last.new_state

\* C3 happens: a self-transition fired both hooks
C3_Witness ==
    /\ last.op = "transition"
    /\ last.new_state = last.from
    /\ NumCalls(calls, "exit") = 1
    /\ NumCalls(calls, "enter") = 1

\* C4: force_state(target) sets current_state to target, calls no hook and
\* leaves the context unchanged, from every state to every target.
C4_ForceStateSilent ==
    last.op = "force_state" =>
        /\ current_state = last.new_state
        /\ calls = <<>>
        /\ context = last.ctx0

\* C4 happens: a living Mario was forced into Dead and is still alive in the
\* context, which entering Dead would have changed
C4_Witness ==
    /\ last.op = "force_state"
    /\ last.from # "DeadMario"
    /\ current_state = "DeadMario"
    /\ context.alive

\* C5: new(initial_state, context) gives a machine in initial_state with the
\* given context and calls no hook, so the context shows no effect of the
\* initial state's enter.
C5_NewRunsNoHook ==
    last.op = "new_with" =>
        /\ current_state = last.new_state
        /\ context = last.ctx0
        /\ calls = <<>>
        /\ nExit = 0
        /\ nEnter = 0

\* C5 happens: a Mario constructed in Dead with alive = true, which entering
\* Dead would have cleared
C5_Witness ==
    /\ last.op = "new_with"
    /\ current_state = "DeadMario"
    /\ context.alive

\* C6: when the state's handle returns Some(N), the engine's handle ends in
\* the state and the context, and makes the hook calls, of transition(N) run
\* on the machine as the state's handle left it; also when N is the current
\* state.
C6_HandleIsTransition ==
    HandledSome =>
        LET after_handle == [sm |-> sm, current_state |-> last.from,
                             context |-> last.res.context, calls |-> <<>>]
            t == transition(after_handle, last.res.next)
        IN  /\ current_state = t.current_state
            /\ context = t.context
            /\ calls = <<Call("handle", last.from)>> \o t.calls

\* C6 happens: an implementor's handle returned its own state and both hooks fired
C6_Witness ==
    /\ HandledSome
    /\ last.res.next = last.from
    /\ NumCalls(calls, "exit") = 1
    /\ NumCalls(calls, "enter") = 1

\* the end-to-end scenario of the integration test
ScenarioEvents ==
    <<GetConsumable("Mushroom"), GetConsumable("Flower"), GetConsumable("Feather"), Hit, Hit>>

ScenarioStates == <<"SuperMario", "FireMario", "CapeMario", "SmallMario", "DeadMario">>

ScenarioSizes == <<"Large", "Large", "Large", "Small">>

\* C7: each handle(event) of Mario ends in the state the decision table gives
\* for (previous state, event), with that state's enter applied to the
\* context; and from Small with {size: Small, alive: true} the events
\* Mushroom, Flower, Feather, Hit, Hit give Super, Fire, Cape, Small, Dead,
\* sizes Large, Large, Large, Small, alive after the first four and not after
\* the fifth.
C7_MarioScenario ==
    /\ last.op = "handle" =>
           LET n == MarioNext(last.from, last.event) IN
           IF n = None
           THEN current_state = last.from /\ context = last.ctx0
           ELSE current_state = n /\ context = MarioStates_enter(n, last.ctx0)
    /\ \A k \in 1..Len(ScenarioEvents) :
           hist = SubSeq(ScenarioEvents, 1, k) =>
               /\ current_state = ScenarioStates[k]
               /\ k <= 4 => context.size = ScenarioSizes[k] /\ context.alive
               /\ k = 5 => ~context.alive

\* C7 happens: the five events were delivered and Mario is dead
C7_Witness ==
    /\ hist = ScenarioEvents
    /\ current_state = "DeadMario"
    /\ ~context.alive

\* C8: Dead is absorbing under event delivery: a handle call made in Dead,
\* with any event, leaves Mario in Dead, calls no hook and leaves the context
\* unchanged; so it is after any number of them.
C8_DeadAbsorbing ==
    [][(sm = "Mario" /\ current_state = "DeadMario" /\ last'.op = "handle") =>
          /\ current_state' = "DeadMario"
          /\ context' = context
          /\ nExit' = nExit
          /\ nEnter' = nEnter
          /\ Protocol(calls') = <<>>]_vars

\* C8 happens: a mushroom was delivered to a dead Mario
C8_Witness ==
    /\ sm = "Mario"
    /\ last.op = "handle"
    /\ last.event = GetConsumable("Mushroom")
    /\ last.from = "DeadMario"
    /\ current_state = "DeadMario"

\* C9: get_current_state returns the state most recently installed by
\* construction, transition, force_state or a transitioning handle, and
\* changes neither current_state nor the context and calls no hook.
C9_GetCurrentState ==
    last.op = "get_current_state" =>
        /\ last.ret = installed
        /\ current_state = last.from
        /\ context = last.ctx0
        /\ calls = <<>>

\* C9 happens: the state read is one a transition installed, not the one the
\* machine was declared to start in
C9_Witness ==
    /\ last.op = "get_current_state"
    /\ last.ret # StatesDecl(sm)[1]
    /\ last.ret = current_state
    /\ nEnter > 0

\* C10: whenever control is with the caller, as many exit calls as enter
\* calls have been made, in the last operation and since construction: no
\* state in which exit(old) has run and enter(new) has not is visible.
C10_NoIntermediateState ==
    /\ nExit = nEnter
    /\ NumCalls(calls, "exit") = NumCalls(calls, "enter")

\* C10 happens: several transitions were made, the last by handle
C10_Witness ==
    /\ HandledSome
    /\ nExit >= 2
    /\ nExit = nEnter

\* C11: the engine has no failure mode.  Every handle call ends in exactly one
\* of two outcomes, no transition or a transition to a member of the State
\* set; transition, force_state and get_current_state can be called with every
\* argument in every state; the Mario decision table gives an answer for all
\* 5 states and all 4 events; current_state is always a declared state.
C11_NoFailureMode ==
    /\ current_state \in States(sm)
    /\ last.op = "handle" =>
           \/ /\ last.res.next = None
              /\ current_state = last.from
              /\ NumCalls(calls, "commit") = 0
           \/ /\ last.res.next \in States(sm)
              /\ current_state = last.res.next
              /\ NumCalls(calls, "commit") = 1
    /\ \A s \in MarioStates : \A e \in MarioEvents :
           MarioNext(s, e) \in MarioStates \cup {None}
    /\ Cardinality(MarioStates) = Len(MarioStatesDecl)
    /\ Cardinality(MarioEvents) = Cardinality(MarioConsumables) + 1
    /\ ENABLED GetCurrentState
    /\ \A s \in States(sm) : ENABLED ForceState(s)
    /\ nExit < MaxTransitions =>
           /\ \A s \in States(sm) : ENABLED Transition(s)
           /\ \A e \in Events(sm) : ENABLED Handle(e)

\* C11 happens: Super Mario was handed a mushroom, a pair the table maps to
\* no transition
C11_Witness ==
    /\ sm = "Mario"
    /\ HandledNone
    /\ last.from = "SuperMario"
    /\ last.event = GetConsumable("Mushroom")
    /\ current_state = "SuperMario"

\* C12 as stated: new() gives the first declared state and the declared
\* defaults with no hook called, and for the Mario declaration that is the
\* start of the end-to-end scenario, Small with {size: Small, alive: true}.
C12_AsStated ==
    last.op = "new" =>
        /\ current_state = StatesDecl(sm)[1]
        /\ context = ContextDefault(sm)
        /\ calls = <<>>
        /\ sm = "Mario" => current_state = "SmallMario" /\ context = ScenarioContext

\* C12 amended: new() gives the first state of the declared list and the
\* declared default of every context field, with no hook called; for the
\* Mario declaration that is DeadMario with {size: Small, alive: true}: the
\* context of the scenario's start, not its state.
C12_NewDefault ==
    last.op = "new" =>
        /\ current_state = StatesDecl(sm)[1]
        /\ context = ContextDefault(sm)
        /\ calls = <<>>
        /\ nExit = 0
        /\ nEnter = 0
        /\ sm = "Mario" => current_state = "DeadMario" /\ context = ScenarioContext
        /\ sm = "FooName" =>
               /\ current_state = "FooStateA"
               /\ context = [context_foo_data |-> 0, context_boo_data |-> TRUE]

\* C12 happens: a Mario made by new() is in DeadMario and alive
C12_Witness ==
    /\ last.op = "new"
    /\ sm = "Mario"
    /\ current_state = "DeadMario"
    /\ context.alive
    /\ context.size = "Small"

\* C13: in the Mario machine started in Small with {size: Small, alive: true}
\* and driven by handle and transition only, size is Large whenever the state
\* is Super, Fire or Cape and Small whenever the state is Small.
C13_SizeFollowsState ==
    /\ current_state \in {"SuperMario", "FireMario", "CapeMario"} => context.size = "Large"
    /\ current_state = "SmallMario" => context.size = "Small"

\* C13 happens: transition took Super Mario, of size Large, to Small
C13_Witness ==
    /\ last.op = "transition"
    /\ last.from = "SuperMario"
    /\ last.ctx0.size = "Large"
    /\ current_state = "SmallMario"
    /\ context.size = "Small"

\* C14: for a state type that overrides neither enter nor exit, transition
\* changes current_state only and a transitioning handle leaves the context as
\* the state's handle left it; in the Mario machine exit never changes the
\* context, so a transition leaves it as enter of the new state alone makes it.
C14_DefaultHooksAreNoOps ==
    /\ (sm = "FooName" /\ last.op = "transition") =>
           /\ context = last.ctx0
           /\ current_state = last.new_state
    /\ (sm = "FooName" /\ HandledSome) => context = last.res.context
    /\ (sm = "Mario" /\ last.op = "transition") =>
           context = MarioStates_enter(last.new_state, last.ctx0)
    /\ (sm = "Mario" /\ HandledSome) =>
           context = MarioStates_enter(last.res.next, last.res.context)
    /\ \A s \in MarioStates : \A c \in MarioContexts : state_exit("Mario", s, c) = c

\* C14 happens: a FooName machine whose context is not the default one made a
\* transition to another state and kept its context
C14_Witness ==
    /\ sm = "FooName"
    /\ last.op = "transition"
    /\ last.from # current_state
    /\ context # FooContextDefault
    /\ context = last.ctx0

\* C15: one handle call calls the state's handle exactly once, first of all
\* and on the state that was current when the call began; the new state's
\* handle is not called; at most one transition is made; and the context goes
\* through handle, exit(old), enter(new) in that order.
C15_OneEventOneTransition ==
    last.op = "handle" =>
        /\ NumCalls(calls, "handle") = 1
        /\ calls[1] = Call("handle", last.from)
        /\ NumCalls(calls, "commit") <= 1
        /\ NumCalls(calls, "exit") <= 1
        /\ NumCalls(calls, "enter") <= 1
        /\ HandledSome =>
               /\ current_state = last.res.next
               /\ context = state_enter(sm, last.res.next,
                                state_exit(sm, last.from, last.res.context))
        /\ HandledNone => context = last.res.context

\* C15 happens: a hit took Super Mario to Small and no further, though Small
\* has a transition for Hit too
C15_Witness ==
    /\ sm = "Mario"
    /\ HandledSome
    /\ last.event = Hit
    /\ last.from = "SuperMario"
    /\ current_state = "SmallMario"
    /\ context.alive

\* C17: in the Mario machine alive never goes from false back to true, under
\* handle, transition and force_state from any starting state, also when the
\* state becomes one other than Dead again.
C17_AliveNeverRestored ==
    [][(sm = "Mario" /\ ~context.alive) => ~context'.alive]_vars

\* C17 happens: transition took a dead Mario to Small and alive is still false
C17_Witness ==
    /\ sm = "Mario"
    /\ last.op = "transition"
    /\ last.from = "DeadMario"
    /\ ~last.ctx0.alive
    /\ current_state = "SmallMario"
    /\ ~context.alive

\* C18: in the Mario machine started in Small with {size: Small, alive: true}
\* and driven by handle only, alive is false exactly when the state is Dead.
C18_DeadIffNotAlive == ~context.alive <=> current_state = "DeadMario"

\* C18 happens: the first hit killed Small Mario
C18_Witness ==
    /\ hist = <<Hit>>
    /\ last.from = "SmallMario"
    /\ current_state = "DeadMario"
    /\ ~context.alive

\* C19: in the Mario machine driven by handle only, two Hit events in a row
\* leave Mario in Dead with alive false; one Hit gives Dead from Small and
\* Small from Super, Fire and Cape, so Dead is reached by one Hit from Small
\* only.
C19_TwoHitsKill ==
    /\ (Len(hist) >= 2 /\ hist[Len(hist)] = Hit /\ hist[Len(hist) - 1] = Hit) =>
           current_state = "DeadMario" /\ ~context.alive
    /\ (last.op = "handle" /\ last.event = Hit) =>
           /\ last.from = "SmallMario" => current_state = "DeadMario"
           /\ last.from \in {"SuperMario", "FireMario", "CapeMario"} =>
                  current_state = "SmallMario"
           /\ (current_state = "DeadMario" /\ last.from # "DeadMario") =>
                  last.from = "SmallMario"

\* C19 happens: Cape Mario was hit twice
C19_Witness ==
    /\ hist = <<GetConsumable("Feather"), Hit, Hit>>
    /\ last.from = "SmallMario"
    /\ current_state = "DeadMario"
    /\ ~context.alive

TypeOK ==
    /\ sm \in Machines
    /\ current_state \in States(sm)
    /\ context \in Contexts(sm)
    /\ nExit \in 0..MaxTransitions
    /\ nEnter \in 0..MaxTransitions
    /\ installed \in States(sm)

====
